---------------------------- MODULE Spec2Model ----------------------------
(***************************************************************************)
(* A model of the STOMP-over-WebSocket client: the Frame codec             *)
(* (Frame.toString, Frame.sizeOfUTF8, Frame.unmarshallSingle,              *)
(* Frame.unmarshall, Frame.marshall) and the Client connection engine.     *)
(*                                                                         *)
(* A JavaScript string is a sequence of characters; a character is a       *)
(* one-character TLA+ string, except the NULL character (octet 0), which   *)
(* is written "NUL", and the characters outside ASCII, which are written   *)
(* by their code point ("U+20AC").  A headers object is a sequence of      *)
(* [name, value] records in insertion order with pairwise distinct names.  *)
(*                                                                         *)
(* The identifiers Byte, BYTES and Stomp, and the bare unmarshallSingle    *)
(* used inside Frame.unmarshall, are free in the source files: they are    *)
(* bound by code of the repository that is not among the source files,     *)
(* and are modelled from the specification (the byte values 10 and 0, the  *)
(* protocol versions, the timer facility, extractOne).                     *)
(***************************************************************************)
EXTENDS Integers, Sequences, FiniteSets, TLC

\* ------------------------------------------------------------- bounds
\* the longest body of a frame handed to the codec
MaxBody == 2
\* the largest maxWebSocketFrameSize configured for a transmit
MaxChunk == 8
\* the largest heart-beat interval the client configures or the peer sends
MaxBeat == 1
\* the clock stops at MaxTime
MaxTime == 4
\* the most subscribe() calls of a client
MaxSubs == 2
\* the most header lines of a frame handed to the codec
MaxLines == 3
\* the most subscribe() and begin() calls of a client that mints identifiers
MaxCalls == 3

\* ---------------------------------------------------------- characters
BYTES_LF == "\n"
BYTES_NULL == "NUL"

\* Byte = {LF, NULL} and BYTES = {LF, NULL}: the byte table the source
\* refers to as Byte.LF and BYTES.LF.
Byte == [LF |-> "\n", NULL |-> "NUL"]
BYTES == [LF |-> "\n", NULL |-> "NUL"]

Digits == <<"0", "1", "2", "3", "4", "5", "6", "7", "8", "9">>

IsDigit(c) == \E i \in 1..10 : Digits[i] = c

DigitValue(c) == (CHOOSE i \in 1..10 : Digits[i] = c) - 1

\* \s of the regular expressions of trim
IsSpace(c) == c \in {" ", "\n", "\t"}

\* ------------------------------------------------- JavaScript strings
Min(a, b) == IF a < b THEN a ELSE b
Max(a, b) == IF a > b THEN a ELSE b

\* String.prototype.substring(a, b): both indices are clamped to
\* [0, length] and swapped when a > b.
substring(s, a, b) ==
    LET ca == Max(0, Min(a, Len(s)))
        cb == Max(0, Min(b, Len(s)))
    IN SubSeq(s, Min(ca, cb) + 1, Max(ca, cb))

substringFrom(s, a) == substring(s, a, Len(s))

\* String.prototype.indexOf(c) for a single character, -1 when absent
indexOf(s, c) ==
    IF \E i \in 1..Len(s) : s[i] = c
    THEN (CHOOSE i \in 1..Len(s) : s[i] = c /\ \A j \in 1..(i-1) : s[j] # c) - 1
    ELSE -1

\* data.search(new RegExp(BYTES_LF + BYTES_LF))
searchLFLF(s) ==
    LET hit(i) == s[i] = BYTES_LF /\ s[i+1] = BYTES_LF
    IN IF \E i \in 1..(Len(s)-1) : hit(i)
       THEN (CHOOSE i \in 1..(Len(s)-1) : hit(i) /\ \A j \in 1..(i-1) : ~hit(j)) - 1
       ELSE -1

\* String.prototype.split(c) for a single character separator
RECURSIVE split(_, _)
split(s, c) ==
    LET i == indexOf(s, c)
    IN IF i = -1 THEN <<s>>
       ELSE <<substring(s, 0, i)>> \o split(substringFrom(s, i + 1), c)

\* Array.prototype.join(c)
RECURSIVE join(_, _)
join(lines, c) ==
    IF Len(lines) = 0 THEN <<>>
    ELSE IF Len(lines) = 1 THEN lines[1]
    ELSE lines[1] \o <<c>> \o join(Tail(lines), c)

reverse(q) == [i \in 1..Len(q) |-> q[Len(q) + 1 - i]]

\* the number of leading characters of s that are LF
RECURSIVE leadingLFs(_)
leadingLFs(s) ==
    IF Len(s) > 0 /\ s[1] = BYTES_LF THEN 1 + leadingLFs(Tail(s)) ELSE 0

\* datas.split(new RegExp(BYTES_NULL + BYTES_LF + '*')): a separator is a
\* NULL and all the LF that follow it
RECURSIVE splitNullLFs(_)
splitNullLFs(s) ==
    LET i == indexOf(s, BYTES_NULL)
    IN IF i = -1 THEN <<s>>
       ELSE LET rest == substringFrom(s, i + 1)
            IN <<substring(s, 0, i)>>
                 \o splitNullLFs(substringFrom(rest, leadingLFs(rest)))

\* s.search(RegExp(BYTES_NULL + BYTES_LF + '*$')) !== -1: some NULL of s is
\* followed by LF only up to the end of s
matchesNullLFsAtEnd(s) ==
    \E i \in 1..Len(s) :
        s[i] = BYTES_NULL /\ \A j \in (i+1)..Len(s) : s[j] = BYTES_LF

\* the strings of a sequence put together
RECURSIVE concat(_)
concat(chunks) ==
    IF Len(chunks) = 0 THEN <<>> ELSE chunks[1] \o concat(Tail(chunks))

\* const trim = (str) => str.replace(/^\s+|\s+$/g,'')
RECURSIVE trimLeft(_)
trimLeft(s) == IF Len(s) > 0 /\ IsSpace(s[1]) THEN trimLeft(Tail(s)) ELSE s

trim(s) == reverse(trimLeft(reverse(trimLeft(s))))

\* the decimal digits of a natural number: `${n}`
RECURSIVE numberToString(_)
numberToString(n) ==
    IF n < 10 THEN <<Digits[n + 1]>>
    ELSE numberToString(n \div 10) \o <<Digits[(n % 10) + 1]>>

\* parseInt(s, 10) of a string without sign: leading white space is skipped
\* and the longest run of digits is read; NaN when there is no digit
parsesToInt(s) == LET t == trimLeft(s) IN Len(t) > 0 /\ IsDigit(t[1])

RECURSIVE digitsValue(_, _)
digitsValue(t, acc) ==
    IF Len(t) > 0 /\ IsDigit(t[1])
    THEN digitsValue(Tail(t), 10 * acc + DigitValue(t[1]))
    ELSE acc

parseInt(s) == digitsValue(trimLeft(s), 0)

\* encodeURI for the characters of the model: a character outside the
\* unescaped set becomes one %XX triple per byte of its UTF-8 encoding
encodeURIChar(c) ==
    CASE c = "U+20AC" -> <<"%", "E", "2", "%", "8", "2", "%", "A", "C">>
      [] c = "U+00E9" -> <<"%", "C", "3", "%", "A", "9">>
      [] c = "NUL"    -> <<"%", "0", "0">>
      [] c = "\n"     -> <<"%", "0", "A">>
      [] c = " "      -> <<"%", "2", "0">>
      [] c = "%"      -> <<"%", "2", "5">>
      [] OTHER        -> <<c>>

RECURSIVE encodeURI(_)
encodeURI(s) ==
    IF Len(s) = 0 THEN <<>> ELSE encodeURIChar(s[1]) \o encodeURI(Tail(s))

\* e.match(/%..|./g).length: at each position a % with two more characters
\* is one match of three characters, any other character one match of one
RECURSIVE countMatches(_)
countMatches(e) ==
    IF Len(e) = 0 THEN 0
    ELSE IF e[1] = "%" /\ Len(e) >= 3 /\ e[2] # "\n" /\ e[3] # "\n"
         THEN 1 + countMatches(SubSeq(e, 4, Len(e)))
    ELSE IF e[1] = "\n" THEN countMatches(Tail(e))
    ELSE 1 + countMatches(Tail(e))

\* ------------------------------------------------------------ headers
HasHeader(headers, name) == \E i \in 1..Len(headers) : headers[i].name = name

\* headers[name], for a name that is present
GetHeader(headers, name) ==
    headers[CHOOSE i \in 1..Len(headers) : headers[i].name = name].value

\* headers[name] = value: an existing key keeps its place
SetHeader(headers, name, value) ==
    IF HasHeader(headers, name)
    THEN [i \in 1..Len(headers) |->
            IF headers[i].name = name
            THEN [name |-> name, value |-> value] ELSE headers[i]]
    ELSE Append(headers, [name |-> name, value |-> value])

\* a delete that leaves the key in place
KeepHeader(headers, name) == headers

\* delete headers[name]
DeleteHeader(headers, name) ==
    SelectSeq(headers, LAMBDA h : h.name # name)

\* the value false of `content-length: false`; it is no string
JsFalse == <<"false">>

content_length == <<"c","o","n","t","e","n","t","-","l","e","n","g","t","h">>

\* -------------------------------------------------------------- Frame
Frame(command, headers, body) ==
    [command |-> command, headers |-> headers, body |-> body]

\* the size of a string in characters
lengthInCharacters(s) == Len(s)

\* Frame.sizeOfUTF8
sizeOfUTF8(s) == IF Len(s) = 0 THEN 0 ELSE countMatches(encodeURI(s))

\* Frame.prototype.toString
toString(frame) ==
    LET skipContentLength ==
            HasHeader(frame.headers, content_length)
            /\ GetHeader(frame.headers, content_length) = JsFalse
        headers == IF skipContentLength
                   THEN DeleteHeader(frame.headers, content_length)
                   ELSE frame.headers
        headerLines == [i \in 1..Len(headers) |->
                          headers[i].name \o <<":">> \o headers[i].value]
        lengthLine == IF Len(frame.body) > 0 /\ ~skipContentLength
                      THEN <<content_length \o <<":">>
                               \o numberToString(sizeOfUTF8(frame.body))>>
                      ELSE <<>>
        lines == <<frame.command>> \o headerLines \o lengthLine
                   \o <<<<BYTES.LF>> \o frame.body>>
    IN join(lines, BYTES.LF)

\* the body of a frame without content-length: up to the first NULL
RECURSIVE bodyToNull(_, _)
bodyToNull(data, i) ==
    IF i >= Len(data) \/ data[i + 1] = BYTES_NULL THEN <<>>
    ELSE <<data[i + 1]>> \o bodyToNull(data, i + 1)

\* the loop over the header lines with an assignment that keeps the value
\* a key already has
RECURSIVE parseHeaderLinesKeepsAssigned(_, _)
parseHeaderLinesKeepsAssigned(lines, headers) ==
    IF Len(lines) = 0 THEN headers
    ELSE LET line == lines[1]
             idx == indexOf(line, ":")
             name == trim(substring(line, 0, idx))
         IN parseHeaderLinesKeepsAssigned(
                Tail(lines),
                IF HasHeader(headers, name) THEN headers
                ELSE SetHeader(headers, name, trim(substringFrom(line, idx + 1))))

\* Frame.unmarshallSingle: the header lines in the order given, each assigned into the object
RECURSIVE parseHeaderLines(_, _)
parseHeaderLines(lines, headers) ==
    IF Len(lines) = 0 THEN headers
    ELSE LET line == lines[1]
             idx == indexOf(line, ":")
         IN parseHeaderLines(Tail(lines),
                SetHeader(headers, trim(substring(line, 0, idx)),
                          trim(substringFrom(line, idx + 1))))

Frame_unmarshallSingle(data) ==
    LET divider == searchLFLF(data)
        headerLines == split(substring(data, 0, divider), BYTES_LF)
        command == Head(headerLines)
        bodyIndex == divider + 2
        headers == parseHeaderLines(reverse(Tail(headerLines)), <<>>)
        hasLength == HasHeader(headers, content_length)
                     /\ Len(GetHeader(headers, content_length)) > 0
        len == GetHeader(headers, content_length)
        body == IF hasLength
                THEN IF parsesToInt(len)
                     THEN substring(data, bodyIndex, bodyIndex + parseInt(len))
                     ELSE substring(data, bodyIndex, 0)
                ELSE bodyToNull(data, bodyIndex)
    IN Frame(command, headers, body)

\* the unmarshallSingle that Frame.unmarshall calls without the class name
unmarshallSingle(data) == Frame_unmarshallSingle(data)

\* Frame.unmarshall with all of the data kept as the partial data when the
\* last frame is not complete
Frame_unmarshallKeepsAll(datas) ==
    LET frames == splitNullLFs(datas)
        firstFrames == SubSeq(frames, 1, Len(frames) - 1)
        lastFrame == frames[Len(frames)]
        first == [i \in 1..Len(firstFrames) |-> unmarshallSingle(firstFrames[i])]
    IN IF lastFrame = <<Byte.LF>> \/ matchesNullLFsAtEnd(lastFrame)
       THEN [frames |-> Append(first, unmarshallSingle(lastFrame)), partial |-> <<>>]
       ELSE [frames |-> first, partial |-> datas]

\* Frame.unmarshall
Frame_unmarshall(datas) ==
    LET frames == splitNullLFs(datas)
        firstFrames == SubSeq(frames, 1, Len(frames) - 1)
        lastFrame == frames[Len(frames)]
        first == [i \in 1..Len(firstFrames) |-> unmarshallSingle(firstFrames[i])]
    IN IF lastFrame = <<Byte.LF>> \/ matchesNullLFsAtEnd(lastFrame)
       THEN [frames |-> Append(first, unmarshallSingle(lastFrame)), partial |-> <<>>]
       ELSE [frames |-> first, partial |-> lastFrame]

\* Frame.marshall
Frame_marshall(command, headers, body) ==
    toString(Frame(command, headers, body)) \o <<BYTES_NULL>>

\* ------------------------------------------------------------- state
VARIABLES
    ws,                     \* the transport: readyState, handlers, writes
    connected,              \* Client.connected
    counter,                \* Client.counter
    heartbeat,              \* Client.heartbeat
    maxWebSocketFrameSize,  \* Client.maxWebSocketFrameSize
    subscriptions,          \* Client.subscriptions: [id, callback] records
    partialData,            \* Client.partialData
    pinger, ponger,         \* Client.pinger, Client.ponger: timer handles
    serverActivity,         \* Client.serverActivity
    onreceive, onreceipt,   \* Client.onreceive, Client.onreceipt are set
    timers,                 \* the timers created by setInterval
    now,                    \* Date.now()
    inStream, inPos, inCuts,\* what the peer sends, how much of it has been
                            \* delivered, and where a transport message may end
    log,                    \* the callbacks invoked and the calls returned
    dispatched,             \* the frames that went through the dispatch
    connectedFrame,         \* the last CONNECTED frame dispatched
    tornDown,               \* a teardown happened after that frame
    pc, input, data, cut, single, whole, first, second
                            \* the codec applied to one frame: the step, the
                            \* frame, its serialization and the results

codecVars == <<pc, input, data, cut, single, whole, first, second>>

clientVars == <<connected, counter, heartbeat, subscriptions, partialData,
                pinger, ponger, serverActivity, onreceive, onreceipt>>

envVars == <<timers, now, inStream, inPos, inCuts>>

historyVars == <<log, dispatched, connectedFrame, tornDown>>

vars == <<ws, maxWebSocketFrameSize, clientVars, envVars, historyVars, codecVars>>

NoFrame == Frame(<<>>, <<>>, <<>>)
NoResult == [frames |-> <<>>, partial |-> <<>>]

\* an undefined timer handle (this.pinger before any setInterval)
NoTimer == 0
\* an undefined time stamp (this.serverActivity before any message)
NoActivity == -1

\* ---------------------------------------------------------- transport
\* ws.send(chunk) on an open transport
wsSend(w, chunk) == [w EXCEPT !.sent = Append(@, chunk)]

\* the loop of Client._transmit with >= for >: a frame whose length is a
\* multiple of the chunk size ends in an empty write
RECURSIVE transmitLoopEmptyTail(_, _, _)
transmitLoopEmptyTail(w, out, max) ==
    IF Len(out) >= max
    THEN transmitLoopEmptyTail(wsSend(w, substring(out, 0, max)),
                               substringFrom(out, max), max)
    ELSE wsSend(w, out)

\* the loop of Client._transmit: the transport after every write of out
RECURSIVE transmitLoop(_, _, _)
transmitLoop(w, out, max) ==
    IF Len(out) > max
    THEN transmitLoop(wsSend(w, substring(out, 0, max)), substringFrom(out, max), max)
    ELSE wsSend(w, out)

\* Client._transmit
_transmit(w, command, headers, body, max) ==
    transmitLoop(w, Frame_marshall(command, headers, body), max)

\* ------------------------------------------------- the codec, applied
SEND == <<"S", "E", "N", "D">>
ACK == <<"A", "C", "K">>
destination == <<"d", "e", "s", "t", "i", "n", "a", "t", "i", "o", "n">>

BodyChars == {"a", BYTES_NULL, "U+20AC"}

RECURSIVE StringsUpTo(_, _)
StringsUpTo(chars, n) ==
    IF n = 0 THEN {<<>>}
    ELSE LET shorter == StringsUpTo(chars, n - 1)
         IN shorter \cup {Append(s, c) : s \in shorter, c \in chars}

CodecHeaders ==
    { <<>>,
      <<[name |-> destination, value |-> <<"/", "q">>]>>,
      <<[name |-> destination, value |-> <<"/", "q">>],
        [name |-> <<"i", "d">>, value |-> <<"7">>]>> }

CodecInputs ==
    { Frame(c, h, b) : c \in {SEND, ACK}, h \in CodecHeaders,
                       b \in StringsUpTo(BodyChars, MaxBody) }

\* new Client(ws): the fields the constructor sets, the others undefined
ClientConstructed ==
    /\ connected = FALSE
    /\ counter = 0
    /\ heartbeat = [outgoing |-> 10000, incoming |-> 10000]
    /\ subscriptions = <<>>
    /\ partialData = <<>>
    /\ pinger = NoTimer
    /\ ponger = NoTimer
    /\ serverActivity = NoActivity
    /\ onreceive = FALSE
    /\ onreceipt = FALSE

NoHistory ==
    /\ log = <<>>
    /\ dispatched = <<>>
    /\ connectedFrame = NoFrame
    /\ tornDown = FALSE

CodecIdle ==
    /\ data = <<>>
    /\ cut = 0
    /\ single = NoFrame
    /\ whole = NoResult
    /\ first = NoResult
    /\ second = NoResult

Transport(state) ==
    [readyState |-> state, onopen |-> FALSE, onmessage |-> FALSE,
     onclose |-> FALSE, sent |-> <<>>]

CodecInit ==
    /\ ws = Transport("OPEN")
    /\ ClientConstructed
    /\ maxWebSocketFrameSize \in 1..MaxChunk
    /\ timers = <<>>
    /\ now = 0
    /\ inStream = <<>>
    /\ inPos = 0
    /\ inCuts = {}
    /\ NoHistory
    /\ pc = "start"
    /\ input \in CodecInputs
    /\ CodecIdle

\* Frame.marshall(command, headers, body)
Marshall ==
    /\ pc = "start"
    /\ data' = Frame_marshall(input.command, input.headers, input.body)
    /\ pc' = "marshalled"
    /\ UNCHANGED <<ws, maxWebSocketFrameSize, clientVars, envVars, historyVars,
                   input, cut, single, whole, first, second>>

\* Frame.unmarshallSingle(data) of a serialized frame
UnmarshallSingle ==
    /\ pc = "marshalled"
    /\ single' = Frame_unmarshallSingle(data)
    /\ pc' = "single"
    /\ UNCHANGED <<ws, maxWebSocketFrameSize, clientVars, envVars, historyVars,
                   input, data, cut, whole, first, second>>

\* Frame.unmarshall(data) of a serialized frame in one piece
UnmarshallWhole ==
    /\ pc = "marshalled"
    /\ whole' = Frame_unmarshall(data)
    /\ pc' = "whole"
    /\ UNCHANGED <<ws, maxWebSocketFrameSize, clientVars, envVars, historyVars,
                   input, data, cut, single, first, second>>

\* Frame.unmarshall of the first k characters of a serialized frame
UnmarshallFirst(k) ==
    /\ pc = "whole"
    /\ cut' = k
    /\ first' = Frame_unmarshall(substring(data, 0, k))
    /\ pc' = "first"
    /\ UNCHANGED <<ws, maxWebSocketFrameSize, clientVars, envVars, historyVars,
                   input, data, single, whole, second>>

\* Frame.unmarshall(this.partialData + data) of the rest of the frame
UnmarshallSecond ==
    /\ pc = "first"
    /\ second' = Frame_unmarshall(first.partial \o substringFrom(data, cut))
    /\ pc' = "second"
    /\ UNCHANGED <<ws, maxWebSocketFrameSize, clientVars, envVars, historyVars,
                   input, data, cut, single, whole, first>>

\* Client._transmit(command, headers, body) on an open transport
Transmit ==
    /\ pc = "start"
    /\ ws' = _transmit(ws, input.command, input.headers, input.body,
                       maxWebSocketFrameSize)
    /\ pc' = "transmitted"
    /\ UNCHANGED <<maxWebSocketFrameSize, clientVars, envVars, historyVars,
                   input, data, cut, single, whole, first, second>>

\* a step of the loop that sends a chunk and keeps all of out
remainderUnchanged(out, max) == out

\* out = out.substring(this.maxWebSocketFrameSize)
remainder(out, max) == substringFrom(out, max)

\* Client._transmit, statement by statement, data being its variable out:
\* let out = Frame.marshall(command, headers, body)
TransmitMarshall ==
    /\ pc = "start"
    /\ data' = Frame_marshall(input.command, input.headers, input.body)
    /\ pc' = "sending"
    /\ UNCHANGED <<ws, maxWebSocketFrameSize, clientVars, envVars, historyVars,
                   input, cut, single, whole, first, second>>

\* a turn of the loop with out.length > this.maxWebSocketFrameSize
TransmitWrite ==
    /\ pc = "sending"
    /\ Len(data) > maxWebSocketFrameSize
    /\ ws' = wsSend(ws, substring(data, 0, maxWebSocketFrameSize))
    /\ data' = remainder(data, maxWebSocketFrameSize)
    /\ UNCHANGED <<maxWebSocketFrameSize, clientVars, envVars, historyVars,
                   pc, input, cut, single, whole, first, second>>

\* the last turn of the loop: return this.ws.send(out)
TransmitReturn ==
    /\ pc = "sending"
    /\ ~(Len(data) > maxWebSocketFrameSize)
    /\ ws' = wsSend(ws, data)
    /\ pc' = "returned"
    /\ UNCHANGED <<maxWebSocketFrameSize, clientVars, envVars, historyVars,
                   input, data, cut, single, whole, first, second>>

TransmitNext ==
    \/ TransmitMarshall
    \/ TransmitWrite
    \/ TransmitReturn

\* _transmit is a synchronous call: a statement that can run does run
SpecTransmit == CodecInit /\ [][TransmitNext]_vars /\ WF_vars(TransmitNext)

CodecNext ==
    \/ Marshall
    \/ UnmarshallSingle
    \/ UnmarshallWhole
    \/ \E k \in 1..(Len(data) - 1) : UnmarshallFirst(k)
    \/ UnmarshallSecond
    \/ Transmit

SpecCodec == CodecInit /\ [][CodecNext]_vars

\* ------------------------------------------------- protocol strings
CONNECT == <<"C", "O", "N", "N", "E", "C", "T">>
CONNECTED == <<"C", "O", "N", "N", "E", "C", "T", "E", "D">>
MESSAGE == <<"M", "E", "S", "S", "A", "G", "E">>
RECEIPT == <<"R", "E", "C", "E", "I", "P", "T">>
ERROR == <<"E", "R", "R", "O", "R">>
DISCONNECT == <<"D", "I", "S", "C", "O", "N", "N", "E", "C", "T">>
version == <<"v", "e", "r", "s", "i", "o", "n">>
heart_beat == <<"h", "e", "a", "r", "t", "-", "b", "e", "a", "t">>
accept_version == <<"a", "c", "c", "e", "p", "t", "-", "v", "e", "r", "s", "i", "o", "n">>
subscription == <<"s", "u", "b", "s", "c", "r", "i", "p", "t", "i", "o", "n">>
message_id == <<"m", "e", "s", "s", "a", "g", "e", "-", "i", "d">>
receipt_id == <<"r", "e", "c", "e", "i", "p", "t", "-", "i", "d">>
SUBSCRIBE == <<"S", "U", "B", "S", "C", "R", "I", "B", "E">>
UNSUBSCRIBE == <<"U", "N", "S", "U", "B", "S", "C", "R", "I", "B", "E">>
NACK == <<"N", "A", "C", "K">>
headers_id == <<"i", "d">>
BEGIN == <<"B", "E", "G", "I", "N">>
transaction == <<"t", "r", "a", "n", "s", "a", "c", "t", "i", "o", "n">>

\* Stomp.VERSIONS: the protocol versions and supportedVersions()
Stomp_VERSIONS ==
    [V1_0 |-> <<"1", ".", "0">>,
     V1_1 |-> <<"1", ".", "1">>,
     V1_2 |-> <<"1", ".", "2">>,
     supportedVersions |-> <<"1", ".", "2", ",", "1", ".", "1", ",", "1", ".", "0">>]

\* Stomp.clearInterval(handle): the timer stops; an undefined handle is ignored
Stomp_clearInterval(tms, handle) ==
    IF handle = NoTimer THEN tms
    ELSE [i \in 1..Len(tms) |->
            IF i = handle THEN [tms[i] EXCEPT !.alive = FALSE] ELSE tms[i]]

\* setInterval(callback) without a delay: the delay is 0, and the callback
\* is called without arguments, so that its parameter ttl is undefined
setInterval(tms, fn) == Append(tms, [fn |-> fn, delay |-> 0, alive |-> TRUE])

\* the value of a property that is not set
Undefined == <<"undefined">>

\* headers[name] or undefined
Lookup(headers, name) ==
    IF HasHeader(headers, name) THEN GetHeader(headers, name) ELSE Undefined

\* `Whoops! Lost connection to ${this.ws.url}`
LostConnection ==
    <<"W", "h", "o", "o", "p", "s", "!", " ", "L", "o", "s", "t", " ",
      "c", "o", "n", "n", "e", "c", "t", "i", "o", "n", " ", "t", "o", " ">>

\* ------------------------------------------------- the connection engine
\* The part of the state that the dispatch of a frame reads and writes.
DispatchState ==
    [connected |-> connected, pinger |-> pinger, ponger |-> ponger,
     timers |-> timers, log |-> log, dispatched |-> dispatched,
     connectedFrame |-> connectedFrame, tornDown |-> tornDown]

Call(st, cb, arg) == [st EXCEPT !.log = Append(@, [cb |-> cb, arg |-> arg])]

\* Client._cleanUp without the reset of connected
_cleanUpKeepsConnected(st) ==
    LET t1 == Stomp_clearInterval(st.timers, st.pinger)
    IN [st EXCEPT !.timers = Stomp_clearInterval(t1, st.ponger)]

\* Client._cleanUp
_cleanUp(st) ==
    LET t1 == Stomp_clearInterval(st.timers, st.pinger)
    IN [st EXCEPT !.connected = FALSE,
                  !.timers = Stomp_clearInterval(t1, st.ponger)]

\* Client._setupHeartbeat with a guard that lets the versions 1.1 and 1.2
\* through, and setInterval as the source calls it
_setupHeartbeatEitherVersion(st, headers) ==
    IF /\ Lookup(headers, version) # Stomp_VERSIONS.V1_1
       /\ Lookup(headers, version) # Stomp_VERSIONS.V1_2
    THEN st
    ELSE LET beats == split(Lookup(headers, heart_beat), ",")
             serverOutgoing == parseInt(beats[1])
             serverIncoming == parseInt(beats[2])
             st1 == IF ~(heartbeat.outgoing = 0 \/ serverIncoming = 0)
                    THEN [st EXCEPT !.timers = setInterval(@, "PING"),
                                    !.pinger = Len(st.timers) + 1]
                    ELSE st
         IN IF ~(heartbeat.incoming = 0 \/ serverOutgoing = 0)
            THEN [st1 EXCEPT !.timers = setInterval(@, "PONG"),
                             !.ponger = Len(st1.timers) + 1]
            ELSE st1

\* Client._setupHeartbeat
_setupHeartbeat(st, headers) ==
    IF \/ Lookup(headers, version) # Stomp_VERSIONS.V1_1
       \/ Lookup(headers, version) # Stomp_VERSIONS.V1_2
    THEN st
    ELSE LET beats == split(Lookup(headers, heart_beat), ",")
             serverOutgoing == parseInt(beats[1])
             serverIncoming == parseInt(beats[2])
             st1 == IF ~(heartbeat.outgoing = 0 \/ serverIncoming = 0)
                    THEN [st EXCEPT !.timers = setInterval(@, "PING"),
                                    !.pinger = Len(st.timers) + 1]
                    ELSE st
         IN IF ~(heartbeat.incoming = 0 \/ serverOutgoing = 0)
            THEN [st1 EXCEPT !.timers = setInterval(@, "PONG"),
                             !.ponger = Len(st1.timers) + 1]
            ELSE st1

\* this.subscriptions[id], when there is one
HasSubscription(id) == \E i \in 1..Len(subscriptions) : subscriptions[i].id = id

SubscriptionCallback(id) ==
    subscriptions[CHOOSE i \in 1..Len(subscriptions) : subscriptions[i].id = id].callback

\* case 'MESSAGE' with this.onreceive looked up before the subscriptions
caseMESSAGEDefaultFirst(st, frame) ==
    LET sub == Lookup(frame.headers, subscription)
        message == [frame |-> frame,
                    ack |-> [messageID |-> Lookup(frame.headers, message_id),
                             subscription |-> sub]]
    IN IF onreceive THEN Call(st, "onreceive", message)
       ELSE IF HasSubscription(sub) THEN Call(st, SubscriptionCallback(sub), message)
       ELSE st

\* case 'MESSAGE': the callback of the subscription or this.onreceive is
\* called with the frame, to which ack and nack have been bound
caseMESSAGE(st, frame) ==
    LET sub == Lookup(frame.headers, subscription)
        message == [frame |-> frame,
                    ack |-> [messageID |-> Lookup(frame.headers, message_id),
                             subscription |-> sub]]
    IN IF HasSubscription(sub) THEN Call(st, SubscriptionCallback(sub), message)
       ELSE IF onreceive THEN Call(st, "onreceive", message)
       ELSE st

\* case 'ERROR' with the teardown of a lost connection
caseERRORCleansUp(st, frame) == Call(_cleanUp(st), "errorCallback", frame)

\* case 'ERROR': if (errorCallback) errorCallback(frame)
caseERROR(st, frame) == Call(st, "errorCallback", frame)

\* the body of the forEach of ws.onmessage: the switch on frame.command;
\* connect() was given a connectCallback and an errorCallback
dispatchFrame(st0, frame) ==
    LET st == [st0 EXCEPT !.dispatched = Append(@, frame)]
    IN CASE frame.command = CONNECTED ->
              LET up == _setupHeartbeat([st EXCEPT !.connected = TRUE], frame.headers)
              IN Call([up EXCEPT !.connectedFrame = frame, !.tornDown = FALSE],
                      "connectCallback", frame)
         [] frame.command = MESSAGE -> caseMESSAGE(st, frame)
         [] frame.command = RECEIPT ->
              IF onreceipt THEN Call(st, "onreceipt", frame) ELSE st
         [] frame.command = ERROR -> caseERROR(st, frame)
         [] OTHER -> st

\* unmarshalledData.frames.forEach(...)
RECURSIVE dispatchAll(_, _)
dispatchAll(st, frames) ==
    IF Len(frames) = 0 THEN st
    ELSE dispatchAll(dispatchFrame(st, Head(frames)), Tail(frames))

StoreDispatchState(st) ==
    /\ connected' = st.connected
    /\ pinger' = st.pinger
    /\ ponger' = st.ponger
    /\ timers' = st.timers
    /\ log' = st.log
    /\ dispatched' = st.dispatched
    /\ connectedFrame' = st.connectedFrame
    /\ tornDown' = st.tornDown

\* client.heartbeat.outgoing = o; client.heartbeat.incoming = i, before connect()
Configure(o, i) ==
    /\ pc = "engine"
    /\ ~ws.onmessage
    /\ heartbeat = [outgoing |-> 10000, incoming |-> 10000]
    /\ heartbeat' = [outgoing |-> o, incoming |-> i]
    /\ UNCHANGED <<ws, maxWebSocketFrameSize, connected, counter, subscriptions,
                   partialData, pinger, ponger, serverActivity, onreceive,
                   onreceipt, envVars, historyVars, codecVars>>

\* Client.connect(headers, connectCallback, errorCallback), called once
connect ==
    /\ pc = "engine"
    /\ ~ws.onmessage
    /\ ws' = [ws EXCEPT !.onmessage = TRUE, !.onclose = TRUE, !.onopen = TRUE]
    /\ UNCHANGED <<maxWebSocketFrameSize, clientVars, envVars, historyVars, codecVars>>

\* the headers of ws.onopen with the two intervals the other way round
connectHeadersSwapped(headers, hb) ==
    SetHeader(SetHeader(headers, accept_version, Stomp_VERSIONS.supportedVersions),
              heart_beat,
              numberToString(hb.incoming) \o <<",">> \o numberToString(hb.outgoing))

\* ws.onopen: headers['accept-version'] = Stomp.VERSIONS.supportedVersions();
\* headers['heart-beat'] = [heartbeat.outgoing, heartbeat.incoming].join(',')
connectHeaders(headers, hb) ==
    SetHeader(SetHeader(headers, accept_version, Stomp_VERSIONS.supportedVersions),
              heart_beat,
              numberToString(hb.outgoing) \o <<",">> \o numberToString(hb.incoming))

\* the transport opens: ws.onopen, when connect() has set it
WsOpen ==
    /\ pc = "engine"
    /\ ws.readyState = "CONNECTING"
    /\ LET opened == [ws EXCEPT !.readyState = "OPEN"]
       IN ws' = IF ws.onopen
                THEN _transmit(opened, CONNECT, connectHeaders(<<>>, heartbeat),
                               <<>>, maxWebSocketFrameSize)
                ELSE opened
    /\ UNCHANGED <<maxWebSocketFrameSize, clientVars, envVars, historyVars, codecVars>>

\* the transport delivers the characters of the stream up to position q as
\* one text message (evt.data is a string): ws.onmessage.  A transport that
\* is closing still delivers what the peer sent before it closes.
WsMessage(q) ==
    /\ pc = "engine"
    /\ ws.onmessage
    /\ ws.readyState \in {"OPEN", "CLOSING"}
    /\ q \in inCuts
    /\ q > inPos
    /\ inPos' = q
    /\ serverActivity' = now
    /\ LET evt == SubSeq(inStream, inPos + 1, q)
       IN IF evt = <<Byte.LF>>
          THEN UNCHANGED <<partialData, connected, pinger, ponger, timers,
                           historyVars>>
          ELSE LET unmarshalledData == Frame_unmarshall(partialData \o evt)
               IN /\ partialData' = unmarshalledData.partial
                  /\ StoreDispatchState(
                        dispatchAll(DispatchState, unmarshalledData.frames))
    /\ UNCHANGED <<ws, maxWebSocketFrameSize, counter, heartbeat, subscriptions,
                   onreceive, onreceipt, now, inStream, inCuts, codecVars>>

\* ws.onclose without the call of errorCallback
ws_oncloseSilent(st) == [_cleanUp(st) EXCEPT !.tornDown = TRUE]

\* ws.onclose: this._cleanUp(); if (errorCallback) errorCallback(msg)
ws_onclose(st) ==
    Call([_cleanUp(st) EXCEPT !.tornDown = TRUE], "errorCallback", LostConnection)

\* the transport closes: ws.onclose, unless disconnect() has discarded it
WsClose ==
    /\ pc = "engine"
    /\ ws.readyState # "CLOSED"
    /\ ws' = [ws EXCEPT !.readyState = "CLOSED"]
    /\ IF ws.onclose
       THEN StoreDispatchState(ws_onclose(DispatchState))
       ELSE UNCHANGED <<connected, pinger, ponger, timers, historyVars>>
    /\ UNCHANGED <<maxWebSocketFrameSize, counter, heartbeat, subscriptions,
                   partialData, serverActivity, onreceive, onreceipt, now,
                   inStream, inPos, inCuts, codecVars>>

\* ws.send on a transport that is closing or closed discards the data
transmitUnlessClosed(w, command, headers, body, max) ==
    IF w.readyState = "OPEN" THEN _transmit(w, command, headers, body, max) ELSE w

\* ws.close()
wsClose(w) ==
    [w EXCEPT !.readyState = IF @ = "CLOSED" THEN "CLOSED" ELSE "CLOSING"]

\* Client.disconnect with ws.close() before the DISCONNECT frame
disconnectClosesFirst(w, max) ==
    [transmitUnlessClosed(wsClose(w), DISCONNECT, <<>>, <<>>, max)
        EXCEPT !.onclose = FALSE]

\* Client.disconnect, what it does to the transport: the DISCONNECT frame,
\* this.ws.onclose = null, this.ws.close()
disconnectTransport(w, max) ==
    wsClose([transmitUnlessClosed(w, DISCONNECT, <<>>, <<>>, max)
                EXCEPT !.onclose = FALSE])

\* Client.disconnect(), called once after connect().  ws.send throws on a
\* transport that is still connecting, and nothing after it runs; it is
\* ignored by a transport that is closing or closed.
disconnect ==
    /\ pc = "engine"
    /\ ws.onmessage
    /\ \A i \in 1..Len(log) : log[i].cb # "disconnect"
    /\ IF ws.readyState = "CONNECTING"
       THEN UNCHANGED <<ws, connected, pinger, ponger, timers, historyVars>>
       ELSE /\ ws' = disconnectTransport(ws, maxWebSocketFrameSize)
            /\ StoreDispatchState(
                 Call([_cleanUp(DispatchState) EXCEPT !.tornDown = TRUE],
                      "disconnect", <<>>))
    /\ UNCHANGED <<maxWebSocketFrameSize, counter, heartbeat, subscriptions,
                   partialData, serverActivity, onreceive, onreceipt, now,
                   inStream, inPos, inCuts, codecVars>>

\* time passes
Tick ==
    /\ pc = "engine"
    /\ now < MaxTime
    /\ now' = now + 1
    /\ UNCHANGED <<ws, maxWebSocketFrameSize, clientVars, timers, inStream,
                   inPos, inCuts, historyVars, codecVars>>

\* ------------------------------------------------------ what the peer sends
Beat(sx, sy) == numberToString(sx) \o <<",">> \o numberToString(sy)

ConnectedFrame(v, sx, sy) ==
    Frame_marshall(CONNECTED,
                   <<[name |-> version, value |-> v],
                     [name |-> heart_beat, value |-> Beat(sx, sy)]>>, <<>>)

MessageFrame ==
    Frame_marshall(MESSAGE,
                   <<[name |-> subscription, value |-> <<"s", "u", "b", "-", "0">>],
                     [name |-> message_id, value |-> <<"1">>]>>,
                   <<"h", "i">>)

ReceiptFrame ==
    Frame_marshall(RECEIPT, <<[name |-> receipt_id, value |-> <<"7">>]>>, <<>>)

\* the positions at which the messages of a script end
RECURSIVE EndsOf(_, _)
EndsOf(script, at) ==
    IF Len(script) = 0 THEN {}
    ELSE {at + Len(script[1])} \cup EndsOf(Tail(script), at + Len(script[1]))

\* a frame in two messages, cut after its command line
InTwo(frame) ==
    LET k == indexOf(frame, BYTES_LF) + 1
    IN <<SubSeq(frame, 1, k), SubSeq(frame, k + 1, Len(frame))>>

\* a CONNECTED frame, a heart-beat and a MESSAGE frame, one per message
Script(v, sx, sy) == <<ConnectedFrame(v, sx, sy), <<Byte.LF>>, MessageFrame>>

Versions == {Stomp_VERSIONS.V1_0, Stomp_VERSIONS.V1_1, Stomp_VERSIONS.V1_2}

Scripts ==
    {Script(v, sx, sy) : v \in Versions, sx \in 0..MaxBeat, sy \in 0..MaxBeat}
    \cup {<<ConnectedFrame(Stomp_VERSIONS.V1_1, 1, 1) \o MessageFrame>>,
          InTwo(ConnectedFrame(Stomp_VERSIONS.V1_2, 1, 1)),
          <<ConnectedFrame(Stomp_VERSIONS.V1_1, 1, 1),
            ConnectedFrame(Stomp_VERSIONS.V1_1, 1, 1)>>}

\* new Client(ws) on a transport that is connecting; the peer sends one of
\* the scripts, each message of it as one transport message
Init ==
    /\ ws = Transport("CONNECTING")
    /\ ClientConstructed
    /\ maxWebSocketFrameSize = 16 * 1024
    /\ timers = <<>>
    /\ now = 0
    /\ \E script \in Scripts :
          /\ inStream = concat(script)
          /\ inCuts = EndsOf(script, 0)
    /\ inPos = 0
    /\ NoHistory
    /\ pc = "engine"
    /\ input = NoFrame
    /\ CodecIdle

Next ==
    \/ \E o \in 0..MaxBeat, i \in 0..MaxBeat : Configure(o, i)
    \/ connect
    \/ WsOpen
    \/ \E q \in inCuts : WsMessage(q)
    \/ WsClose
    \/ disconnect
    \/ Tick

Spec == Init /\ [][Next]_vars

\* the peer sends frames and heart-beats, and the transport cuts them into
\* messages anywhere
Streams ==
    { ReceiptFrame \o <<Byte.LF>> \o MessageFrame,
      MessageFrame \o ReceiptFrame \o <<Byte.LF>>,
      ReceiptFrame \o <<Byte.LF, Byte.LF>> \o ReceiptFrame,
      Frame_marshall(ERROR, <<>>, <<BYTES_NULL, "a">>) \o ReceiptFrame }

StreamInit ==
    /\ ws = Transport("CONNECTING")
    /\ ClientConstructed
    /\ maxWebSocketFrameSize = 16 * 1024
    /\ timers = <<>>
    /\ now = 0
    /\ inStream \in Streams
    /\ inCuts = 1..Len(inStream)
    /\ inPos = 0
    /\ NoHistory
    /\ pc = "engine"
    /\ input = NoFrame
    /\ CodecIdle

StreamNext ==
    \/ connect
    \/ WsOpen
    \/ \E q \in inCuts : WsMessage(q)

SpecStream == StreamInit /\ [][StreamNext]_vars

\* ------------------------------------------- subscriptions and messages
\* this.subscriptions[id] = callback
SetSubscription(subs, sid, callback) ==
    IF \E i \in 1..Len(subs) : subs[i].id = sid
    THEN [i \in 1..Len(subs) |->
            IF subs[i].id = sid THEN [id |-> sid, callback |-> callback] ELSE subs[i]]
    ELSE Append(subs, [id |-> sid, callback |-> callback])

\* Client.unsubscribe without the delete
KeepSubscription(subs, sid) == subs

\* delete this.subscriptions[id]
DeleteSubscription(subs, sid) == SelectSeq(subs, LAMBDA r : r.id # sid)

\* 'sub-' + this.counter
SubscriptionId(n) == <<"s", "u", "b", "-">> \o numberToString(n)

\* the callbacks the application subscribes with
Callbacks == {"onA", "onB"}

\* a counter++ that leaves the counter as it is
postIncrementStuck(n) == n

\* this.counter++: the counter after it
postIncrement(n) == n + 1

\* Client.subscribe(destination, callback, headers): the table is written
\* before the SUBSCRIBE frame is transmitted, so also when ws.send throws on
\* a transport that is still connecting and no id is returned
subscribeWith(given, callback) ==
    /\ pc = "engine"
    /\ LET minted == ~(HasHeader(given, headers_id)
                         /\ Len(GetHeader(given, headers_id)) > 0)
           sid == IF minted THEN SubscriptionId(counter)
                  ELSE GetHeader(given, headers_id)
           headers == SetHeader(SetHeader(given, headers_id, sid),
                                destination, <<"/", "q">>)
       IN /\ counter' = IF minted THEN postIncrement(counter) ELSE counter
          /\ subscriptions' = SetSubscription(subscriptions, sid, callback)
          /\ ws' = transmitUnlessClosed(ws, SUBSCRIBE, headers, <<>>,
                                        maxWebSocketFrameSize)
          /\ log' = Append(log, [cb |-> "subscribe",
                                 arg |-> [id |-> sid, callback |-> callback,
                                          minted |-> minted,
                                          returned |-> ws.readyState # "CONNECTING"]])
    /\ UNCHANGED <<maxWebSocketFrameSize, connected, heartbeat, partialData,
                   pinger, ponger, serverActivity, onreceive, onreceipt, envVars,
                   dispatched, connectedFrame, tornDown, codecVars>>

\* Client.subscribe(destination, callback), no headers given
subscribe(callback) ==
    /\ counter < MaxSubs
    /\ subscribeWith(<<>>, callback)

\* 'tx-' + this.counter
TransactionId(n) == <<"t", "x", "-">> \o numberToString(n)

\* Client.begin(transaction): the default of the parameter is evaluated,
\* and the counter incremented, when no transaction is given
begin(given) ==
    /\ pc = "engine"
    /\ LET minted == given = Undefined
           tid == IF minted THEN TransactionId(counter) ELSE given
       IN /\ counter' = IF minted THEN postIncrement(counter) ELSE counter
          /\ ws' = transmitUnlessClosed(ws, BEGIN,
                                        <<[name |-> transaction, value |-> tid]>>,
                                        <<>>, maxWebSocketFrameSize)
          /\ log' = Append(log, [cb |-> "begin",
                                 arg |-> [id |-> tid, minted |-> minted,
                                          returned |-> ws.readyState # "CONNECTING"]])
    /\ UNCHANGED <<maxWebSocketFrameSize, connected, heartbeat, subscriptions,
                   partialData, pinger, ponger, serverActivity, onreceive,
                   onreceipt, envVars, dispatched, connectedFrame, tornDown,
                   codecVars>>

\* Client.unsubscribe(id) of an id that subscribe() has set, once for an id
unsubscribe(sid) ==
    /\ pc = "engine"
    /\ \E i \in 1..Len(log) : log[i].cb = "subscribe" /\ log[i].arg.id = sid
    /\ \A i \in 1..Len(log) : log[i].cb = "unsubscribe" => log[i].arg.id # sid
    /\ subscriptions' = DeleteSubscription(subscriptions, sid)
    /\ ws' = transmitUnlessClosed(ws, UNSUBSCRIBE, <<[name |-> headers_id, value |-> sid]>>,
                                  <<>>, maxWebSocketFrameSize)
    /\ log' = Append(log, [cb |-> "unsubscribe", arg |-> [id |-> sid]])
    /\ UNCHANGED <<maxWebSocketFrameSize, connected, counter, heartbeat,
                   partialData, pinger, ponger, serverActivity, onreceive,
                   onreceipt, envVars, dispatched, connectedFrame, tornDown,
                   codecVars>>

\* client.onreceive = function (frame) {...}
setOnreceive ==
    /\ pc = "engine"
    /\ ~onreceive
    /\ onreceive' = TRUE
    /\ UNCHANGED <<ws, maxWebSocketFrameSize, connected, counter, heartbeat,
                   subscriptions, partialData, pinger, ponger, serverActivity,
                   onreceipt, envVars, historyVars, codecVars>>

\* the callbacks that receive a MESSAGE frame
MessageHandlers == Callbacks \cup {"onreceive"}

\* the application calls message.ack() or message.nack() of the message
\* that the last call of the log handed to it:
\* Client.ack(messageID, subscription) or Client.nack(messageID, subscription)
acknowledge(i, command) ==
    /\ pc = "engine"
    /\ i = Len(log)
    /\ i > 0
    /\ log[i].cb \in MessageHandlers
    /\ LET bound == log[i].arg.ack
           headers == SetHeader(SetHeader(<<>>, message_id, bound.messageID),
                                subscription, bound.subscription)
       IN /\ ws' = transmitUnlessClosed(ws, command, headers, <<>>,
                                        maxWebSocketFrameSize)
          /\ log' = Append(log, [cb |-> IF command = ACK THEN "ack" ELSE "nack",
                                 arg |-> bound])
    /\ UNCHANGED <<maxWebSocketFrameSize, clientVars, envVars, dispatched,
                   connectedFrame, tornDown, codecVars>>

MessageFor(sid, mid) ==
    Frame_marshall(MESSAGE,
                   <<[name |-> subscription, value |-> sid],
                     [name |-> message_id, value |-> mid]>>,
                   <<"h", "i">>)

ErrorFrame ==
    Frame_marshall(ERROR,
                   <<[name |-> <<"m", "e", "s", "s", "a", "g", "e">>,
                      value |-> <<"b", "a", "d">>]>>,
                   <<"n", "o">>)

\* what the peer sends to a client with subscriptions, each element one
\* transport message
DispatchScripts ==
    { <<MessageFor(SubscriptionId(0), <<"1">>), ErrorFrame,
        MessageFor(SubscriptionId(1), <<"2">>)>>,
      <<MessageFor(SubscriptionId(1), <<"1">>) \o MessageFor(SubscriptionId(0), <<"2">>)>>,
      <<ConnectedFrame(Stomp_VERSIONS.V1_0, 0, 0), ErrorFrame \o ErrorFrame,
        MessageFor(SubscriptionId(0), <<"1">>)>> }

DispatchInit ==
    /\ ws = Transport("CONNECTING")
    /\ ClientConstructed
    /\ maxWebSocketFrameSize = 16 * 1024
    /\ timers = <<>>
    /\ now = 0
    /\ \E script \in DispatchScripts :
          /\ inStream = concat(script)
          /\ inCuts = EndsOf(script, 0)
    /\ inPos = 0
    /\ NoHistory
    /\ pc = "engine"
    /\ input = NoFrame
    /\ CodecIdle

DispatchNext ==
    \/ connect
    \/ WsOpen
    \/ \E q \in inCuts : WsMessage(q)
    \/ \E callback \in Callbacks : subscribe(callback)
    \/ \E n \in 0..(MaxSubs - 1) : unsubscribe(SubscriptionId(n))
    \/ setOnreceive
    \/ \E command \in {ACK, NACK} : acknowledge(Len(log), command)

SpecDispatch == DispatchInit /\ [][DispatchNext]_vars

\* ------------------------------------------------ minted identifiers
\* the headers a caller gives to subscribe(): none, or an id of its own
GivenHeaders ==
    { <<>>,
      <<[name |-> headers_id, value |-> <<"m", "i", "n", "e">>]>>,
      <<[name |-> headers_id, value |-> SubscriptionId(1)]>> }

\* the transaction a caller gives to begin(): none, or an id of its own
GivenTransactions == {Undefined, <<"m", "i", "n", "e">>, TransactionId(1)}

CounterInit ==
    /\ ws = Transport("CONNECTING")
    /\ ClientConstructed
    /\ maxWebSocketFrameSize = 16 * 1024
    /\ timers = <<>>
    /\ now = 0
    /\ inStream = <<>>
    /\ inPos = 0
    /\ inCuts = {}
    /\ NoHistory
    /\ pc = "engine"
    /\ input = NoFrame
    /\ CodecIdle

CounterNext ==
    \/ connect
    \/ WsOpen
    \/ \E given \in GivenHeaders, callback \in Callbacks :
          Len(log) < MaxCalls /\ subscribeWith(given, callback)
    \/ \E given \in GivenTransactions :
          Len(log) < MaxCalls /\ begin(given)

SpecCounter == CounterInit /\ [][CounterNext]_vars

\* ------------------------------------------- the codec and header lines
\* the sequences of at most n elements of a set
RECURSIVE SeqsUpTo(_, _)
SeqsUpTo(elements, n) ==
    IF n = 0 THEN {<<>>}
    ELSE LET shorter == SeqsUpTo(elements, n - 1)
         IN shorter \cup {Append(q, e) : q \in shorter, e \in elements}

DistinctNames(headers) ==
    \A i \in 1..Len(headers) : \A j \in 1..Len(headers) :
        headers[i].name = headers[j].name => i = j

\* the headers objects handed to Frame.marshall: the keys in every order of
\* insertion, content-length: false among them
ObjectHeaders ==
    {h \in SeqsUpTo({[name |-> destination, value |-> <<"/", "q">>],
                     [name |-> headers_id, value |-> <<"7">>],
                     [name |-> content_length, value |-> JsFalse]}, MaxLines) :
        DistinctNames(h)}

ObjectInputs ==
    { Frame(SEND, h, b) : h \in ObjectHeaders,
                          b \in StringsUpTo({"a", "U+00E9", "U+20AC"}, MaxBody) }

\* the header lines of a frame on the wire, in wire order: a name may occur
\* on several lines
WireInputs ==
    { Frame(c, h, <<>>) :
        c \in {MESSAGE, ERROR},
        h \in SeqsUpTo({[name |-> <<"a">>, value |-> <<"1">>],
                        [name |-> <<"a">>, value |-> <<"2">>],
                        [name |-> <<"b">>, value |-> <<"1">>],
                        [name |-> <<"b">>, value |-> <<"2">>]}, MaxLines) }

\* a frame on the wire without the NULL that ends it: the command line, the
\* header lines, an empty line and the body
WireData(frame) ==
    join(<<frame.command>>
           \o [i \in 1..Len(frame.headers) |->
                 frame.headers[i].name \o <<":">> \o frame.headers[i].value]
           \o <<<<>>, frame.body>>,
         BYTES_LF)

LinesInit ==
    /\ ws = Transport("OPEN")
    /\ ClientConstructed
    /\ maxWebSocketFrameSize = 16 * 1024
    /\ timers = <<>>
    /\ now = 0
    /\ inStream = <<>>
    /\ inPos = 0
    /\ inCuts = {}
    /\ NoHistory
    /\ \/ pc = "start" /\ input \in ObjectInputs
       \/ pc = "received" /\ input \in WireInputs
    /\ CodecIdle

\* Frame.unmarshallSingle(data) of a frame of the wire
UnmarshallWire ==
    /\ pc = "received"
    /\ data' = WireData(input)
    /\ single' = Frame_unmarshallSingle(WireData(input))
    /\ pc' = "wire"
    /\ UNCHANGED <<ws, maxWebSocketFrameSize, clientVars, envVars, historyVars,
                   input, cut, whole, first, second>>

\* Frame.unmarshall(datas) of that frame and the NULL that ends it
UnmarshallWireWhole ==
    /\ pc = "wire"
    /\ whole' = Frame_unmarshall(data \o <<BYTES_NULL>>)
    /\ pc' = "wirewhole"
    /\ UNCHANGED <<ws, maxWebSocketFrameSize, clientVars, envVars, historyVars,
                   input, data, cut, single, first, second>>

LinesNext ==
    \/ Marshall
    \/ UnmarshallWire
    \/ UnmarshallWireWhole

SpecLines == LinesInit /\ [][LinesNext]_vars

\* ------------------------------------------------- claims on the codec
HeaderPairs(headers) == {headers[i] : i \in 1..Len(headers)}

Contains(s, c) == \E i \in 1..Len(s) : s[i] = c

\* C1: a serialized frame cut in two at any offset: Frame.unmarshall of the
\* first chunk emits no frame and returns the chunk as the partial data, and
\* Frame.unmarshall of the partial data followed by the second chunk emits
\* exactly the one frame that the whole serialization emits, with no partial
\* data left.
C1_CutFrameResumes ==
    pc = "second" =>
        /\ first.frames = <<>>
        /\ first.partial = substring(data, 0, cut)
        /\ Len(whole.frames) = 1
        /\ second.frames = whole.frames
        /\ second.partial = <<>>

\* C3: a frame whose content-length equals the length of its body, and whose
\* body contains NULL characters, comes out of Frame.unmarshall as one frame
\* with exactly that body.
C3_BodyWithNullIsOneFrame ==
    (/\ pc = "whole"
     /\ Contains(input.body, BYTES_NULL)
     /\ sizeOfUTF8(input.body) = Len(input.body))
    => /\ Len(whole.frames) = 1
       /\ whole.frames[1].body = input.body

\* C4: Frame.unmarshallSingle(Frame.marshall(command, headers, body)) has the
\* command and the body given, and the headers given plus at most the
\* content-length that Frame.toString added.
C4_MarshallRoundTrip ==
    pc = "single" =>
        /\ single.command = input.command
        /\ single.body = input.body
        /\ {h \in HeaderPairs(single.headers) : h.name # content_length}
             = HeaderPairs(input.headers)

\* C5: Client._transmit of a serialized frame of length L with chunk size M
\* makes ceil(L / M) writes; each but the last has M characters, the last has
\* the rest and ends with the NULL character, and the writes put together
\* are the serialized frame.
C5_TransmitChunks ==
    pc = "transmitted" =>
        LET out == Frame_marshall(input.command, input.headers, input.body)
            L == Len(out)
            M == maxWebSocketFrameSize
            n == (L + M - 1) \div M
        IN /\ Len(ws.sent) = n
           /\ \A i \in 1..(n - 1) : Len(ws.sent[i]) = M
           /\ Len(ws.sent[n]) = L - M * (n - 1)
           /\ ws.sent[n][Len(ws.sent[n])] = BYTES_NULL
           /\ concat(ws.sent) = out

\* C5 witness: a frame sent in three writes or more, the last one shorter
\* than the chunk size
C5_Witness ==
    /\ pc = "transmitted"
    /\ Len(ws.sent) >= 3
    /\ Len(ws.sent[Len(ws.sent)]) < maxWebSocketFrameSize

\* C23: Client._transmit returns for every serialized frame and every
\* chunk size of at least 1; every turn of its loop but the last writes a
\* chunk of that size and leaves a remainder shorter by that size; it
\* returns with the last of the remainder written, the writes being those
\* of the serialized frame in order.
C23_TransmitTerminates ==
    /\ <>(pc = "returned")
    /\ [][(pc = "sending" /\ pc' = "sending") =>
            /\ Len(data') = Len(data) - maxWebSocketFrameSize
            /\ Len(data') < Len(data)
            /\ Len(data') > 0
            /\ ws'.sent = Append(ws.sent, SubSeq(data, 1, maxWebSocketFrameSize))
            /\ ws'.sent[Len(ws'.sent)] \o data' = data]_vars
    /\ [](pc = "returned" =>
            /\ ws.sent[Len(ws.sent)] = data
            /\ concat(ws.sent) =
                 Frame_marshall(input.command, input.headers, input.body)
            /\ ws = transmitLoop(Transport("OPEN"),
                                 Frame_marshall(input.command, input.headers,
                                                input.body),
                                 maxWebSocketFrameSize))

\* C23 witness: a frame has been sent in chunks of two characters or more,
\* three writes at least, and the call has returned
C23_Witness ==
    /\ pc = "returned"
    /\ maxWebSocketFrameSize > 1
    /\ Len(ws.sent) >= 3
    /\ Len(data) < maxWebSocketFrameSize

\* the lines of a serialized frame up to the empty line, the command line
\* left out
HeaderLinesOf(d) == Tail(split(substring(d, 0, searchLFLF(d)), BYTES_LF))

\* the number of bytes of the UTF-8 encoding of a string
Utf8Length(c) ==
    CASE c = "U+20AC" -> 3
      [] c = "U+00E9" -> 2
      [] OTHER -> 1

RECURSIVE Utf8Bytes(_)
Utf8Bytes(b) == IF Len(b) = 0 THEN 0 ELSE Utf8Length(b[1]) + Utf8Bytes(Tail(b))

IsLengthLine(line) ==
    substring(line, 0, Len(content_length) + 1) = content_length \o <<":">>

Suppressed(headers) ==
    \E i \in 1..Len(headers) :
        headers[i] = [name |-> content_length, value |-> JsFalse]

\* C16: the serialization of a frame with a body, content-length not being
\* suppressed, has one content-length line, and it gives the number of bytes
\* of the UTF-8 encoding of the body; with an empty body it has none.
C16_ContentLengthCountsBytes ==
    (pc = "marshalled" /\ ~Suppressed(input.headers)) =>
        LET lengthLines == SelectSeq(HeaderLinesOf(data), IsLengthLine)
        IN IF input.body = <<>>
           THEN lengthLines = <<>>
           ELSE lengthLines =
                  <<content_length \o <<":">> \o numberToString(Utf8Bytes(input.body))>>

\* C16 witness: a body of one character of three bytes, serialized with
\* content-length:3
C16_Witness ==
    /\ pc = "marshalled"
    /\ input.headers = <<>>
    /\ input.body = <<"U+20AC">>
    /\ HeaderLinesOf(data) = <<content_length \o <<":", "3">>>>

\* C17: Frame.unmarshallSingle gives every header name of the frame the
\* value of the first of the lines, in wire order, that have the name, and
\* no other header; so does every frame that Frame.unmarshall returns.
C17_FirstHeaderLineWins ==
    LET firstOf(name) ==
            input.headers[CHOOSE i \in 1..Len(input.headers) :
                             /\ input.headers[i].name = name
                             /\ \A j \in 1..(i - 1) : input.headers[j].name # name].value
        expected == {[name |-> h.name, value |-> firstOf(h.name)] :
                        h \in HeaderPairs(input.headers)}
    IN /\ pc \in {"wire", "wirewhole"} => HeaderPairs(single.headers) = expected
       /\ pc = "wirewhole" =>
             /\ Len(whole.frames) = 1
             /\ HeaderPairs(whole.frames[1].headers) = expected

\* C17 witness: the lines a:1, b:2, a:2 have been parsed to a = 1, b = 2
C17_Witness ==
    /\ pc = "wirewhole"
    /\ input.headers = <<[name |-> <<"a">>, value |-> <<"1">>],
                         [name |-> <<"b">>, value |-> <<"2">>],
                         [name |-> <<"a">>, value |-> <<"2">>]>>
    /\ HeaderPairs(single.headers) = {[name |-> <<"a">>, value |-> <<"1">>],
                                      [name |-> <<"b">>, value |-> <<"2">>]}

\* C18: the serialization of a frame with the header content-length: false
\* and a body has the other headers as its header lines, in the order of
\* their insertion, and no line of content-length.
C18_FalseSuppressesContentLength ==
    (pc = "marshalled" /\ Suppressed(input.headers) /\ input.body # <<>>) =>
        LET others == SelectSeq(input.headers, LAMBDA h : h.name # content_length)
        IN /\ HeaderLinesOf(data) =
                [i \in 1..Len(others) |->
                    others[i].name \o <<":">> \o others[i].value]
           /\ \A i \in 1..Len(HeaderLinesOf(data)) :
                 ~IsLengthLine(HeaderLinesOf(data)[i])

\* C18 witness: content-length: false was inserted between two other
\* headers of a frame with a body
C18_Witness ==
    /\ pc = "marshalled"
    /\ Len(input.headers) = 3
    /\ input.headers[2] = [name |-> content_length, value |-> JsFalse]
    /\ input.body # <<>>
    /\ Len(HeaderLinesOf(data)) = 2

\* ------------------------------------------------ claims on the engine
\* the frames dispatched when the whole stream arrives as one message
DispatchedInOne(stream) ==
    IF stream = <<Byte.LF>> THEN <<>> ELSE Frame_unmarshall(stream).frames

\* C2: however a stream of complete frames and heart-beats is cut into
\* transport messages, once all of it has been delivered the engine has
\* dispatched the frames it dispatches when the stream arrives as one message.
C2_CutsDispatchAlike ==
    inPos = Len(inStream) => dispatched = DispatchedInOne(inStream)

\* C6: once disconnect() has returned no callback is invoked, connected stays
\* false and no timer is alive.
C6_NothingAfterDisconnect ==
    \A i \in 1..Len(log) :
        log[i].cb = "disconnect" =>
            /\ i = Len(log)
            /\ ~connected
            /\ \A t \in 1..Len(timers) : ~timers[t].alive

Negotiated ==
    /\ connectedFrame # NoFrame
    /\ ~tornDown
    /\ Lookup(connectedFrame.headers, version)
         \in {Stomp_VERSIONS.V1_1, Stomp_VERSIONS.V1_2}

\* sx and sy of the heart-beat header of that frame
PeerOutgoing == parseInt(split(Lookup(connectedFrame.headers, heart_beat), ",")[1])
PeerIncoming == parseInt(split(Lookup(connectedFrame.headers, heart_beat), ",")[2])

Running(handle, fn) ==
    /\ handle # NoTimer
    /\ timers[handle].alive
    /\ timers[handle].fn = fn

\* C8: after a CONNECTED frame of version 1.1 or 1.2, with a non-zero
\* outgoing interval of the client and a non-zero incoming interval of the
\* peer, the ping timer is running.
C8_PingRunsAfterConnected ==
    (Negotiated /\ heartbeat.outgoing # 0 /\ PeerIncoming # 0)
    => Running(pinger, "PING")

\* C9: after a CONNECTED frame the ping is enabled iff the outgoing interval
\* of the client and sy are non-zero, every max(outgoing, sy); the check of
\* the peer is enabled iff the incoming interval of the client and sx are
\* non-zero, every max(incoming, sx).
C9_NegotiatedIntervals ==
    Negotiated =>
        /\ Running(pinger, "PING") <=> (heartbeat.outgoing # 0 /\ PeerIncoming # 0)
        /\ Running(pinger, "PING") =>
             timers[pinger].delay = Max(heartbeat.outgoing, PeerIncoming)
        /\ Running(ponger, "PONG") <=> (heartbeat.incoming # 0 /\ PeerOutgoing # 0)
        /\ Running(ponger, "PONG") =>
             timers[ponger].delay = Max(heartbeat.incoming, PeerOutgoing)

\* C10: with the check of the peer enabled every T, a silence longer than
\* 2 * T at a tick of the check closes the transport.  A check that runs
\* every T has ticked during a silence longer than 2 * T by the time the
\* silence is longer than 3 * T.
C10_SilenceClosesTransport ==
    (/\ Negotiated
     /\ heartbeat.incoming # 0
     /\ PeerOutgoing # 0
     /\ now - serverActivity > 3 * Max(heartbeat.incoming, PeerOutgoing))
    => ws.readyState \in {"CLOSING", "CLOSED"}

\* no timer is alive
NoTimerAlive(tms) == \A t \in 1..Len(tms) : ~tms[t].alive

\* a step in which disconnect() runs to its end
DisconnectReturns ==
    /\ Len(log') = Len(log) + 1
    /\ log'[Len(log')].cb = "disconnect"

LostConnectionCalls ==
    {i \in 1..Len(log) : log[i] = [cb |-> "errorCallback", arg |-> LostConnection]}

\* a step in which the transport closes with the close handler of connect()
\* in place: no disconnect() has discarded it
ClosesUnasked ==
    /\ ws.readyState # "CLOSED"
    /\ ws'.readyState = "CLOSED"
    /\ ws.onclose

\* C12: when the transport closes and no disconnect() has discarded the
\* close handler, connected becomes false, no timer stays alive and the
\* error callback is invoked once, with the message of a lost connection;
\* it is never invoked with that message a second time.
C12_CloseTearsDownAndReports ==
    /\ [][ClosesUnasked =>
            /\ ~connected'
            /\ NoTimerAlive(timers')
            /\ log' = Append(log, [cb |-> "errorCallback", arg |-> LostConnection])]_vars
    /\ [](Cardinality(LostConnectionCalls) <= 1)

\* C12 witness: the transport closed on a connected engine
C12_Witness ==
    /\ ws.readyState = "CLOSED"
    /\ ws.onclose
    /\ connectedFrame # NoFrame
    /\ tornDown
    /\ Cardinality(LostConnectionCalls) = 1

\* the timers alive that run fn
Alive(fn) == {t \in 1..Len(timers) : timers[t].alive /\ timers[t].fn = fn}

\* C19: at most one ping timer and at most one timer of the check of the
\* peer is alive, and every timer alive is the one whose handle the engine
\* holds in pinger or ponger.
C19_AtMostOneTimerOfEach ==
    /\ Cardinality(Alive("PING")) <= 1
    /\ Cardinality(Alive("PONG")) <= 1
    /\ Alive("PING") \subseteq {pinger}
    /\ Alive("PONG") \subseteq {ponger}

\* C19 witness: two CONNECTED frames of version 1.1 that ask for heart-beats
\* have been dispatched on one connection
C19_Witness ==
    /\ Cardinality({i \in 1..Len(dispatched) : dispatched[i].command = CONNECTED}) = 2
    /\ Negotiated
    /\ connected
    /\ heartbeat.outgoing # 0
    /\ PeerIncoming # 0

\* C20: connect() writes nothing to the transport, nothing is written while
\* the transport is connecting, and when the transport opens after connect()
\* the engine writes one CONNECT frame with the accept-version header and
\* the heart-beat header <outgoing>,<incoming> of the client.
C20_OpenWritesOneConnect ==
    /\ [][(~ws.onopen /\ ws'.onopen) => ws'.sent = ws.sent]_vars
    /\ [](ws.readyState = "CONNECTING" => ws.sent = <<>>)
    /\ [][(ws.readyState = "CONNECTING" /\ ws'.readyState = "OPEN" /\ ws.onopen) =>
            ws'.sent =
              <<Frame_marshall(
                  CONNECT,
                  <<[name |-> accept_version,
                     value |-> <<"1", ".", "2", ",", "1", ".", "1", ",", "1", ".", "0">>],
                    [name |-> heart_beat,
                     value |-> Beat(heartbeat.outgoing, heartbeat.incoming)]>>,
                  <<>>)>>]_vars

\* C20 witness: the transport opened after connect(), the client having
\* configured two different intervals
C20_Witness ==
    /\ ws.onopen
    /\ ws.readyState = "OPEN"
    /\ Len(ws.sent) = 1
    /\ heartbeat.outgoing # heartbeat.incoming

\* ------------------------------------------- claims on the dispatch
\* a step in which the transport delivers a message
Delivers == inPos' > inPos

\* the frames dispatched and the callbacks invoked in a step
NewFrames == SubSeq(dispatched', Len(dispatched) + 1, Len(dispatched'))
NewCalls == SubSeq(log', Len(log) + 1, Len(log'))

\* the invocations, in a step, of a handler of messages with frame f
CallsFor(f) ==
    {k \in 1..Len(NewCalls) :
        NewCalls[k].cb \in MessageHandlers /\ NewCalls[k].arg.frame = f}

\* subscribe(destination, callback) has returned sid, and unsubscribe(sid)
\* has been called since
Unsubscribed(sid, callback) ==
    \E i \in 1..Len(log) : \E j \in (i + 1)..Len(log) :
        /\ log[i].cb = "subscribe"
        /\ log[i].arg.id = sid
        /\ log[i].arg.callback = callback
        /\ log[i].arg.returned
        /\ log[j].cb = "unsubscribe"
        /\ log[j].arg.id = sid

\* C13: after subscribe(destination, cb) returned id and unsubscribe(id) was
\* called, a MESSAGE frame with that subscription is handed to the default
\* handler onreceive, once, when it is set, and to no handler otherwise;
\* the table of subscriptions has no entry for id.
C13_UnsubscribedGoesToDefault ==
    /\ [][Delivers =>
            \A n \in 1..Len(NewFrames) :
                LET f == NewFrames[n]
                    sid == Lookup(f.headers, subscription)
                IN (f.command = MESSAGE /\ \E c \in Callbacks : Unsubscribed(sid, c)) =>
                      /\ \A k \in CallsFor(f) : NewCalls[k].cb = "onreceive"
                      /\ Cardinality(CallsFor(f)) = IF onreceive THEN 1 ELSE 0]_vars
    /\ [](\A i \in 1..Len(log) :
            log[i].cb = "unsubscribe" => ~HasSubscription(log[i].arg.id))

\* C13 witness: a message of a subscription that was made and then
\* cancelled has been handed to onreceive
C13_Witness ==
    \E k \in 1..Len(log) :
        /\ log[k].cb = "onreceive"
        /\ \E c \in Callbacks :
              \E i \in 1..(k - 1) : \E j \in (i + 1)..(k - 1) :
                 /\ log[i].cb = "subscribe"
                 /\ log[i].arg = [id |-> log[k].arg.ack.subscription,
                                  callback |-> c, minted |-> TRUE,
                                  returned |-> TRUE]
                 /\ log[j].cb = "unsubscribe"
                 /\ log[j].arg.id = log[k].arg.ack.subscription

\* the handler of a MESSAGE frame: the callback in the table under the
\* subscription header of the frame, else onreceive when it is set
Resolved(f) ==
    LET sid == Lookup(f.headers, subscription)
    IN IF \E i \in 1..Len(subscriptions) : subscriptions[i].id = sid
       THEN {subscriptions[i].callback : i \in {j \in 1..Len(subscriptions) :
                                                  subscriptions[j].id = sid}}
       ELSE IF onreceive THEN {"onreceive"} ELSE {}

C15_ErrorFrameOnlyReports ==
    [][(/\ Delivers
        /\ Len(NewFrames) > 0
        /\ \A n \in 1..Len(NewFrames) : NewFrames[n].command = ERROR)
       => /\ Len(NewCalls) = Len(NewFrames)
          /\ \A n \in 1..Len(NewFrames) :
                /\ NewCalls[n].cb = "errorCallback"
                /\ NewCalls[n].arg = NewFrames[n]
                /\ NewFrames[n].body = <<"n", "o">>
          /\ UNCHANGED <<ws, connected, counter, subscriptions, pinger, ponger,
                         timers, partialData>>]_vars

\* C15 witness: two ERROR frames have been reported on a connected engine
\* whose transport is open
C15_Witness ==
    /\ connected
    /\ ws.readyState = "OPEN"
    /\ Len(subscriptions) > 0
    /\ Cardinality({i \in 1..Len(log) :
                       log[i].cb = "errorCallback" /\ log[i].arg.command = ERROR}) = 2

\* -------------------------------------------- claims on the counter
\* a step in which subscribe() or begin() is called
Mints == Len(log') = Len(log) + 1 /\ log'[Len(log')].cb \in {"subscribe", "begin"}

\* the calls of the log that minted their identifier
MintedCalls ==
    {i \in 1..Len(log) : log[i].cb \in {"subscribe", "begin"} /\ log[i].arg.minted}

\* C21: the counter never decreases; a call of subscribe() or begin()
\* without an identifier of the caller adds one to it and mints sub-<n> or
\* tx-<n> from its value before the call, a call with an identifier of the
\* caller leaves it as it is; the identifiers minted are pairwise distinct.
C21_CounterMintsDistinctIds ==
    /\ [][counter' >= counter]_vars
    /\ [][Mints =>
            LET call == log'[Len(log')]
            IN IF call.arg.minted
               THEN /\ counter' = counter + 1
                    /\ call.arg.id =
                         (IF call.cb = "subscribe" THEN <<"s", "u", "b", "-">>
                          ELSE <<"t", "x", "-">>) \o numberToString(counter)
               ELSE counter' = counter]_vars
    /\ [][~Mints => counter' = counter]_vars
    /\ [](\A i \in MintedCalls : \A j \in MintedCalls :
            log[i].arg.id = log[j].arg.id => i = j)
    /\ [](counter = Cardinality(MintedCalls))

\* C21 witness: subscribe() and begin() have minted identifiers between
\* calls that brought their own, one of them sub-1
C21_Witness ==
    /\ counter = 2
    /\ Len(log) = 3
    /\ log[1] = [cb |-> "subscribe",
                 arg |-> [id |-> SubscriptionId(0), callback |-> "onA",
                          minted |-> TRUE, returned |-> TRUE]]
    /\ log[2].cb = "subscribe"
    /\ ~log[2].arg.minted
    /\ log[2].arg.id = SubscriptionId(1)
    /\ log[3].cb = "begin"
    /\ log[3].arg.id = TransactionId(1)
    /\ log[3].arg.minted

\* ------------------------------------------ claims on the partial data
\* what follows the last NULL of s and the LF after it; s when it has no NULL
AfterLastNull(s) ==
    IF \A i \in 1..Len(s) : s[i] # BYTES_NULL THEN s
    ELSE LET last == CHOOSE i \in 1..Len(s) :
                        /\ s[i] = BYTES_NULL
                        /\ \A j \in (i + 1)..Len(s) : s[j] # BYTES_NULL
             rest == SubSeq(s, last + 1, Len(s))
         IN SubSeq(rest, leadingLFs(rest) + 1, Len(rest))

\* s ends with a NULL and the LF after it
EndsWithNullLFs(s) ==
    \E i \in 1..Len(s) :
        s[i] = BYTES_NULL /\ \A j \in (i + 1)..Len(s) : s[j] = BYTES_LF

\* C22: the partial data never contains the NULL character; a message that
\* is one LF leaves it as it is, and any other message leaves what follows
\* the last NULL, and the LF after it, of the partial data and the message
\* put together: nothing when that ends with a NULL and LF only.
C22_PartialDataHasNoNull ==
    /\ [](\A i \in 1..Len(partialData) : partialData[i] # BYTES_NULL)
    /\ [][Delivers =>
            LET evt == SubSeq(inStream, inPos + 1, inPos')
                merged == partialData \o evt
            IN IF evt = <<BYTES_LF>>
               THEN partialData' = partialData
               ELSE /\ partialData' = AfterLastNull(merged)
                    /\ EndsWithNullLFs(merged) => partialData' = <<>>]_vars

\* C22 witness: a frame whose body has a NULL has been dispatched and the
\* beginning of the next frame is the partial data
C22_Witness ==
    /\ Len(dispatched) > 0
    /\ dispatched[1].command = ERROR
    /\ Len(partialData) > 3
    /\ partialData = SubSeq(inStream, inPos - Len(partialData) + 1, inPos)
    /\ \E i \in 1..(inPos - Len(partialData) - 1) :
          inStream[i] = BYTES_NULL /\ inStream[i + 1] # BYTES_LF

=============================================================================
